---- MODULE Spec2Model ----
(***************************************************************************)
(* A model of the bigram histogram crate (src/src/lib.rs, src/src/main.rs). *)
(*                                                                         *)
(* A Rust string is modelled as a sequence of characters, each character a  *)
(* TLA+ string: an ASCII character is itself ("a", ".", " "), a non-ASCII   *)
(* character is named by its code point ("U+1F970").  Byte offsets, which   *)
(* the regex crate and str::split_at work in, are computed from the UTF-8   *)
(* width of each character.                                                *)
(***************************************************************************)
EXTENDS Integers, Sequences, FiniteSets, TLC

VARIABLES
    pc,             \* position of main/run
    counter_map,    \* run: HashMap<String, u32>
    rolling_vector, \* run: Vec<String>
    line_no,        \* run: index the enumerate() of the lines iterator is at
    line_word_vec,  \* run: tokens of the current line not yet fed
    output,         \* what println! has written so far
    exit_code,      \* status given to process::exit (read once pc = "exited")
    run_entered,    \* whether main has called run
    lines_read,     \* history: the lines the reader has yielded
    stream,         \* history: the words passed to calculate_counts
    text,           \* SpecText: the input string
    cleansed,       \* SpecText: cleanse_word(text)
    parsed,         \* SpecText: parse_text_into_vec(text)
    tpc             \* SpecText: which function has been applied

vars == <<pc, counter_map, rolling_vector, line_no, line_word_vec, output,
          exit_code, run_entered, lines_read, stream, text, cleansed, parsed, tpc>>

runVars == <<pc, counter_map, rolling_vector, line_no, line_word_vec, output,
             exit_code, run_entered, lines_read, stream>>

textVars == <<text, cleansed, parsed, tpc>>

----------------------------------------------------------------------------
(* Bounds *)

\* lines the reader yields before the end of the file
MaxLines == 3

\* length, in characters, of the strings cleanse_word and parse_text_into_vec
\* are applied to
MaxTextLen == 5

----------------------------------------------------------------------------
(* Characters and strings *)

LowerSeq ==
    <<"a","b","c","d","e","f","g","h","i","j","k","l","m",
      "n","o","p","q","r","s","t","u","v","w","x","y","z">>

UpperSeq ==
    <<"A","B","C","D","E","F","G","H","I","J","K","L","M",
      "N","O","P","Q","R","S","T","U","V","W","X","Y","Z">>

Lower == {LowerSeq[i] : i \in 1..Len(LowerSeq)}

Upper == {UpperSeq[i] : i \in 1..Len(UpperSeq)}

Digit == {"0","1","2","3","4","5","6","7","8","9"}

\* UTF-8 width of a character
Utf8Len(c) ==
    IF c \in {"U+0085", "U+00A0", "U+00E9"} THEN 2
    ELSE IF c \in {"U+20AC", "U+3000"} THEN 3
    ELSE IF c \in {"U+1F970", "U+1F60D"} THEN 4
    ELSE 1

\* str::len: the length in bytes
RECURSIVE str_len(_)
str_len(s) == IF s = <<>> THEN 0 ELSE Utf8Len(Head(s)) + str_len(Tail(s))

\* str::split_at(mid): mid is a byte offset on a character boundary
split_at(s, mid) ==
    LET k == CHOOSE n \in 0..Len(s) : str_len(SubSeq(s, 1, n)) = mid
    IN  <<SubSeq(s, 1, k), SubSeq(s, k + 1, Len(s))>>

\* char::to_ascii_lowercase: only A-Z change
char_to_ascii_lowercase(c) ==
    IF c \in Upper
    THEN LowerSeq[CHOOSE i \in 1..Len(UpperSeq) : UpperSeq[i] = c]
    ELSE c

\* str::to_ascii_lowercase
to_ascii_lowercase(s) == [i \in 1..Len(s) |-> char_to_ascii_lowercase(s[i])]

\* char::is_whitespace (the Unicode White_Space property)
is_whitespace(c) ==
    c \in {" ", "\t", "\n", "\r", "U+0085", "U+00A0", "U+3000"}

\* str::split_whitespace: the maximal runs of non-whitespace, in order
RECURSIVE split_ws(_, _)
split_ws(s, cur) ==
    IF s = <<>>
    THEN IF cur = <<>> THEN <<>> ELSE <<cur>>
    ELSE IF is_whitespace(Head(s))
         THEN (IF cur = <<>> THEN <<>> ELSE <<cur>>) \o split_ws(Tail(s), <<>>)
         ELSE split_ws(Tail(s), Append(cur, Head(s)))

split_whitespace(line) == split_ws(line, <<>>)

----------------------------------------------------------------------------
(* get_regex: the pattern [^a-z0-9 ]+ *)

\* the characters the negated class excludes
re_class(c) == c \in Lower \cup Digit \cup {" "}

\* Regex::is_match
re_is_match(s) == \E i \in 1..Len(s) : ~re_class(s[i])

\* Regex::find: the leftmost match, greedy, as byte offsets (start, end)
re_find(s) ==
    LET i0 == CHOOSE i \in 1..Len(s) :
                  /\ ~re_class(s[i])
                  /\ \A j \in 1..(i - 1) : re_class(s[j])
        j0 == CHOOSE j \in i0..Len(s) :
                  /\ \A k \in i0..j : ~re_class(s[k])
                  /\ (j = Len(s) \/ re_class(s[j + 1]))
    IN  [start |-> str_len(SubSeq(s, 1, i0 - 1)), end |-> str_len(SubSeq(s, 1, j0))]

----------------------------------------------------------------------------
(* cleanse_word *)

None == [some |-> FALSE, val |-> <<>>]

Some(s) == [some |-> TRUE, val |-> s]

\* mutant: the word between two punctuation runs keeps its trailing run
cleanse_word_keep_tail(s) ==
    IF re_is_match(s)
    THEN LET start_idx == re_find(s).start
             end_idx == re_find(s).end
         IN  IF start_idx # 0
             THEN Some(split_at(s, start_idx)[1])
             ELSE IF start_idx = 0 /\ str_len(s) > end_idx
             THEN Some(split_at(s, end_idx)[2])
             ELSE IF start_idx = 0 /\ str_len(s) = end_idx
             THEN None
             ELSE Some(s)
    ELSE Some(s)

\* mutant: > written as >=, so a candidate that is all punctuation is split
cleanse_word_ge(s) ==
    IF re_is_match(s)
    THEN LET start_idx == re_find(s).start
             end_idx == re_find(s).end
         IN  IF start_idx # 0
             THEN Some(split_at(s, start_idx)[1])
             ELSE IF start_idx = 0 /\ str_len(s) >= end_idx
             THEN LET temp == split_at(s, end_idx)[2]
                  IN  IF re_is_match(temp)
                      THEN Some(split_at(temp, re_find(temp).start)[1])
                      ELSE Some(temp)
             ELSE IF start_idx = 0 /\ str_len(s) = end_idx
             THEN None
             ELSE Some(s)
    ELSE Some(s)

\* mutant: the trailing punctuation is cut at the match's end, not its start
cleanse_word_cut_at_end(s) ==
    IF re_is_match(s)
    THEN LET start_idx == re_find(s).start
             end_idx == re_find(s).end
         IN  IF start_idx # 0
             THEN Some(split_at(s, end_idx)[1])
             ELSE IF start_idx = 0 /\ str_len(s) > end_idx
             THEN LET temp == split_at(s, end_idx)[2]
                  IN  IF re_is_match(temp)
                      THEN Some(split_at(temp, re_find(temp).start)[1])
                      ELSE Some(temp)
             ELSE IF start_idx = 0 /\ str_len(s) = end_idx
             THEN None
             ELSE Some(s)
    ELSE Some(s)

cleanse_word(s) ==
    IF re_is_match(s)
    THEN LET start_idx == re_find(s).start
             end_idx == re_find(s).end
         IN  IF start_idx # 0
             THEN Some(split_at(s, start_idx)[1])
             ELSE IF start_idx = 0 /\ str_len(s) > end_idx
             THEN LET temp == split_at(s, end_idx)[2]
                  IN  IF re_is_match(temp)
                      THEN Some(split_at(temp, re_find(temp).start)[1])
                      ELSE Some(temp)
             ELSE IF start_idx = 0 /\ str_len(s) = end_idx
             THEN None
             ELSE Some(s)
    ELSE Some(s)

----------------------------------------------------------------------------
(* parse_text_into_vec *)

is_some_lowered(s) == cleanse_word(to_ascii_lowercase(s)).some

\* mutant: the pieces are cleansed without being lowercased first
parse_text_into_vec_no_lowercase(line) ==
    LET is_some_raw(s) == cleanse_word(s).some
        kept == SelectSeq(split_whitespace(line), is_some_raw)
    IN  [k \in 1..Len(kept) |-> cleanse_word(kept[k]).val]

parse_text_into_vec(line) ==
    LET kept == SelectSeq(split_whitespace(line), is_some_lowered)
    IN  [k \in 1..Len(kept) |-> cleanse_word(to_ascii_lowercase(kept[k])).val]

----------------------------------------------------------------------------
(* get_key_from_vec and calculate_counts *)

EmptyMap == [k \in {} |-> 0]

\* Vec::get(i).unwrap() panics when the vector is shorter
get_key_from_vec(v) ==
    IF Len(v) >= 2
    THEN [panic |-> FALSE, key |-> v[1] \o <<" ">> \o v[2]]
    ELSE [panic |-> TRUE, key |-> <<>>]

\* mutant: the window is emptied after a bigram, so bigrams do not overlap
calculate_counts_no_overlap(map, rv, word) ==
    LET rv1 == IF Len(rv) < 2 THEN Append(rv, word) ELSE rv
    IN  IF Len(rv1) = 2
        THEN LET k == get_key_from_vec(rv1)
             IN  IF k.panic
                 THEN [counter_map |-> map, rolling_vector |-> rv1, panic |-> TRUE]
                 ELSE [counter_map |->
                           IF k.key \in DOMAIN map
                           THEN [map EXCEPT ![k.key] = map[k.key] + 1]
                           ELSE map @@ (k.key :> 1),
                       rolling_vector |-> <<>>,
                       panic |-> FALSE]
        ELSE [counter_map |-> map, rolling_vector |-> rv1, panic |-> FALSE]

\* mutant: the window is re-initialized with its first word, not its second
calculate_counts_keep_first(map, rv, word) ==
    LET rv1 == IF Len(rv) < 2 THEN Append(rv, word) ELSE rv
    IN  IF Len(rv1) = 2
        THEN LET k == get_key_from_vec(rv1)
             IN  IF k.panic
                 THEN [counter_map |-> map, rolling_vector |-> rv1, panic |-> TRUE]
                 ELSE [counter_map |->
                           IF k.key \in DOMAIN map
                           THEN [map EXCEPT ![k.key] = map[k.key] + 1]
                           ELSE map @@ (k.key :> 1),
                       rolling_vector |-> <<rv1[1]>>,
                       panic |-> FALSE]
        ELSE [counter_map |-> map, rolling_vector |-> rv1, panic |-> FALSE]

\* mutant: the key is built whenever the window is not empty
calculate_counts_key_early(map, rv, word) ==
    LET rv1 == IF Len(rv) < 2 THEN Append(rv, word) ELSE rv
    IN  IF Len(rv1) >= 1
        THEN LET k == get_key_from_vec(rv1)
             IN  IF k.panic
                 THEN [counter_map |-> map, rolling_vector |-> rv1, panic |-> TRUE]
                 ELSE [counter_map |->
                           IF k.key \in DOMAIN map
                           THEN [map EXCEPT ![k.key] = map[k.key] + 1]
                           ELSE map @@ (k.key :> 1),
                       rolling_vector |-> <<rv1[2]>>,
                       panic |-> FALSE]
        ELSE [counter_map |-> map, rolling_vector |-> rv1, panic |-> FALSE]

\* the new counter_map and rolling_vector, and whether the call panicked
calculate_counts(map, rv, word) ==
    LET rv1 == IF Len(rv) < 2 THEN Append(rv, word) ELSE rv
    IN  IF Len(rv1) = 2
        THEN LET k == get_key_from_vec(rv1)
             IN  IF k.panic
                 THEN [counter_map |-> map, rolling_vector |-> rv1, panic |-> TRUE]
                 ELSE [counter_map |->
                           IF k.key \in DOMAIN map
                           THEN [map EXCEPT ![k.key] = map[k.key] + 1]
                           ELSE map @@ (k.key :> 1),
                       rolling_vector |-> <<rv1[2]>>,
                       panic |-> FALSE]
        ELSE [counter_map |-> map, rolling_vector |-> rv1, panic |-> FALSE]

----------------------------------------------------------------------------
(* The environment of a run: the command line and the file *)

\* env::args(): the program name, then the file path if one was given
ArgLists == {<<"bigram">>, <<"bigram", "in.txt">>}

\* Config::new
Config_new(args) ==
    IF Len(args) < 2
    THEN [ok |-> FALSE, filename |-> ""]
    ELSE [ok |-> TRUE, filename |-> args[2]]

\* the lines a file may hold
FileLines ==
    { <<"t","h","e"," ","q","u","i","c","k">>,
      <<"b","r","o","w","n"," ","f","o","x">>,
      <<".",".",".">>,
      <<" ","F","O","X","'","s"," "," ">> }

\* the status run gives process::exit
ExitIO == 9

Line(kind) == [kind |-> kind, key |-> <<>>, n |-> 0]

----------------------------------------------------------------------------
(* main and run *)

Init ==
    /\ pc = "main"
    /\ counter_map = EmptyMap
    /\ rolling_vector = <<>>
    /\ line_no = 0
    /\ line_word_vec = <<>>
    /\ output = <<>>
    /\ exit_code = 0
    /\ run_entered = FALSE
    /\ lines_read = <<>>
    /\ stream = <<>>
    /\ text = <<>>
    /\ cleansed = None
    /\ parsed = <<>>
    /\ tpc = "off"

\* main: Config::new, then the banner and the call of run
Main ==
    /\ pc = "main"
    /\ \E args \in ArgLists :
          IF Config_new(args).ok
          THEN /\ output' = Append(output, Line("generating"))
               /\ run_entered' = TRUE
               /\ pc' = "open"
               /\ UNCHANGED exit_code
          ELSE /\ output' = Append(output, Line("error_parsing"))
               /\ exit_code' = ExitIO
               /\ pc' = "exited"
               /\ UNCHANGED run_entered
    /\ UNCHANGED <<counter_map, rolling_vector, line_no, line_word_vec,
                   lines_read, stream>>
    /\ UNCHANGED textVars

\* mutant: a file that cannot be opened is reported and read as an empty file
OpenFile_continue ==
    /\ pc = "open"
    /\ \E opened \in BOOLEAN :
          IF opened
          THEN /\ pc' = "lines"
               /\ UNCHANGED <<output, exit_code>>
          ELSE /\ output' = Append(output, Line("cannot_read"))
               /\ pc' = "print"
               /\ UNCHANGED exit_code
    /\ UNCHANGED <<counter_map, rolling_vector, line_no, line_word_vec,
                   run_entered, lines_read, stream>>
    /\ UNCHANGED textVars

\* run: read_lines(&config.filename).unwrap_or_else(...)
OpenFile ==
    /\ pc = "open"
    /\ \E opened \in BOOLEAN :
          IF opened
          THEN /\ pc' = "lines"
               /\ UNCHANGED <<output, exit_code>>
          ELSE /\ output' = Append(output, Line("cannot_read"))
               /\ exit_code' = ExitIO
               /\ pc' = "exited"
    /\ UNCHANGED <<counter_map, rolling_vector, line_no, line_word_vec,
                   run_entered, lines_read, stream>>
    /\ UNCHANGED textVars

\* mutant: the window is emptied at the start of every line
NextLine_reset_window ==
    /\ pc = "lines"
    /\ line_no < MaxLines
    /\ \E line \in FileLines :
          /\ line_word_vec' = parse_text_into_vec(line)
          /\ lines_read' = Append(lines_read, line)
          /\ line_no' = line_no + 1
          /\ rolling_vector' = <<>>
          /\ pc' = IF parse_text_into_vec(line) = <<>> THEN "lines" ELSE "words"
    /\ UNCHANGED <<counter_map, output, exit_code, run_entered, stream>>
    /\ UNCHANGED textVars

\* run: the lines iterator yields Ok(line), which is parsed
NextLine ==
    /\ pc = "lines"
    /\ line_no < MaxLines
    /\ \E line \in FileLines :
          /\ line_word_vec' = parse_text_into_vec(line)
          /\ lines_read' = Append(lines_read, line)
          /\ line_no' = line_no + 1
          /\ pc' = IF parse_text_into_vec(line) = <<>> THEN "lines" ELSE "words"
    /\ UNCHANGED <<counter_map, rolling_vector, output, exit_code, run_entered,
                   stream>>
    /\ UNCHANGED textVars

\* run: the lines iterator yields Err: line.unwrap_or_else(...)
LineError ==
    /\ pc = "lines"
    /\ line_no < MaxLines
    /\ output' = Append(output, [kind |-> "line_error", key |-> <<>>, n |-> line_no])
    /\ exit_code' = ExitIO
    /\ pc' = "exited"
    /\ UNCHANGED <<counter_map, rolling_vector, line_no, line_word_vec,
                   run_entered, lines_read, stream>>
    /\ UNCHANGED textVars

\* run: the lines iterator is exhausted
EndOfFile ==
    /\ pc = "lines"
    /\ pc' = "print"
    /\ UNCHANGED <<counter_map, rolling_vector, line_no, line_word_vec, output,
                   exit_code, run_entered, lines_read, stream>>
    /\ UNCHANGED textVars

\* run: one iteration of the loop over line_word_vec
Feed ==
    /\ pc = "words"
    /\ line_word_vec # <<>>
    /\ LET r == calculate_counts(counter_map, rolling_vector, Head(line_word_vec))
       IN  /\ counter_map' = r.counter_map
           /\ rolling_vector' = r.rolling_vector
           /\ stream' = Append(stream, Head(line_word_vec))
           /\ line_word_vec' = Tail(line_word_vec)
           /\ pc' = IF r.panic THEN "panicked"
                    ELSE IF Tail(line_word_vec) = <<>> THEN "lines" ELSE "words"
    /\ UNCHANGED <<line_no, output, exit_code, run_entered, lines_read>>
    /\ UNCHANGED textVars

\* the keys the loop over counter_map.iter() has printed
Printed == {output[i].key : i \in {j \in 1..Len(output) : output[j].kind = "hist"}}

\* run: one iteration of the loop over counter_map.iter(); a HashMap
\* iterates in an arbitrary order
PrintEntry ==
    /\ pc = "print"
    /\ \E k \in (DOMAIN counter_map) \ Printed :
          output' = Append(output, [kind |-> "hist", key |-> k, n |-> counter_map[k]])
    /\ UNCHANGED <<pc, counter_map, rolling_vector, line_no, line_word_vec,
                   exit_code, run_entered, lines_read, stream>>
    /\ UNCHANGED textVars

\* run: the total line, Ok(()), and main's return
PrintTotal ==
    /\ pc = "print"
    /\ (DOMAIN counter_map) \ Printed = {}
    /\ output' = Append(output, [kind |-> "total", key |-> <<>>,
                                 n |-> Cardinality(DOMAIN counter_map)])
    /\ pc' = "done"
    /\ UNCHANGED <<counter_map, rolling_vector, line_no, line_word_vec,
                   exit_code, run_entered, lines_read, stream>>
    /\ UNCHANGED textVars

Next ==
    \/ Main
    \/ OpenFile
    \/ NextLine
    \/ LineError
    \/ EndOfFile
    \/ Feed
    \/ PrintEntry
    \/ PrintTotal

Spec == Init /\ [][Next]_vars

----------------------------------------------------------------------------
(* cleanse_word and parse_text_into_vec applied to arbitrary strings *)

\* one character of each class the functions tell apart: a lowercase
\* letter, a digit, an uppercase letter, the space, another whitespace
\* character, an ASCII punctuation mark, a non-ASCII character
TextChars == {"a", "0", "A", " ", "\t", ".", "U+1F970"}

\* the strings of the crate's own cleanse_word tests, shortened (with ; for
\* the backquote)
TestTexts ==
    { <<"f","o","x">>,
      <<"f","o","x","'","s">>,
      <<".",".",".","?","?","?",".",".",".",",",",",",",",",";",";",";","f","o","x">>,
      <<".",".",".","?",";","f","o","x",".",".",".","!","!","!">>,
      <<".",".",".","?","?","?",",",";",";",".",".",".","!","!">>,
      <<".",".",".","?",";","U+1F970","U+1F60D","f","o","x",".",".",".","!","!">> }

TextInputs ==
    (UNION {[1..n -> TextChars] : n \in 0..MaxTextLen}) \cup TestTexts

InitText ==
    /\ text \in TextInputs
    /\ cleansed = None
    /\ parsed = <<>>
    /\ tpc = "input"
    /\ pc = "off"
    /\ counter_map = EmptyMap
    /\ rolling_vector = <<>>
    /\ line_no = 0
    /\ line_word_vec = <<>>
    /\ output = <<>>
    /\ exit_code = 0
    /\ run_entered = FALSE
    /\ lines_read = <<>>
    /\ stream = <<>>

ApplyCleanse ==
    /\ tpc = "input"
    /\ cleansed' = cleanse_word(text)
    /\ tpc' = "cleansed"
    /\ UNCHANGED <<text, parsed>>
    /\ UNCHANGED runVars

ApplyParse ==
    /\ tpc = "input"
    /\ parsed' = parse_text_into_vec(text)
    /\ tpc' = "parsed"
    /\ UNCHANGED <<text, cleansed>>
    /\ UNCHANGED runVars

NextText ==
    \/ ApplyCleanse
    \/ ApplyParse

SpecText == InitText /\ [][NextText]_vars

----------------------------------------------------------------------------
(* Properties of the accumulator: calculate_counts *)

\* the key "a b" of the pair (a, b)
PairKey(a, b) == a \o <<" ">> \o b

\* the positions of t that start the pair (a, b)
Positions(t, a, b) == {i \in 1..(Len(t) - 1) : t[i] = a /\ t[i + 1] = b}

\* map holds, for every adjacent pair of t, the number of positions where
\* the pair occurs, and no other key
CountsPairsOf(map, t) ==
    /\ DOMAIN map = {PairKey(t[i], t[i + 1]) : i \in 1..(Len(t) - 1)}
    /\ \A i \in 1..(Len(t) - 1) :
          map[PairKey(t[i], t[i + 1])] = Cardinality(Positions(t, t[i], t[i + 1]))

\* C1: after calculate_counts has been called once per token of a stream,
\* starting from an empty buffer and an empty map, the map holds under
\* "a b" exactly the number of positions where a is followed by b, and no
\* other key (so nothing for fewer than 2 tokens, and no wraparound pair).
C1_CountsAdjacentPairs == CountsPairsOf(counter_map, stream)

\* a stream in which one bigram has been counted twice and another once
C1_Witness ==
    /\ Len(stream) >= 4
    /\ \E k \in DOMAIN counter_map : counter_map[k] = 2
    /\ \E k \in DOMAIN counter_map : counter_map[k] = 1
    /\ PairKey(stream[Len(stream)], stream[1]) \notin DOMAIN counter_map

\* C9: between calls the buffer holds at most 2 tokens; before the first
\* call it is empty, and after any call it holds exactly the token passed
\* to that call.
C9_WindowHoldsLastToken ==
    /\ Len(rolling_vector) <= 2
    /\ stream = <<>> => rolling_vector = <<>>
    /\ stream # <<>> => rolling_vector = <<stream[Len(stream)]>>

\* the buffer after a call that counted a bigram of two different tokens
C9_Witness ==
    /\ Len(stream) >= 2
    /\ stream[Len(stream) - 1] # stream[Len(stream)]
    /\ PairKey(stream[Len(stream) - 1], stream[Len(stream)]) \in DOMAIN counter_map
    /\ rolling_vector = <<stream[Len(stream)]>>

\* C10: get_key_from_vec never panics in a run: it is only called on a
\* buffer of 2 tokens.
C10_KeyNeverPanics == pc # "panicked"

\* get_key_from_vec has been called, for the first token pair and again
C10_Witness ==
    /\ pc = "words"
    /\ Len(stream) = 3
    /\ Cardinality(DOMAIN counter_map) = 2

----------------------------------------------------------------------------
(* Properties of run *)

\* the tokens of a sequence of lines, in order
RECURSIVE FlatTokens(_)
FlatTokens(ls) ==
    IF ls = <<>> THEN <<>>
    ELSE parse_text_into_vec(Head(ls)) \o FlatTokens(Tail(ls))

TheQuick == <<"t","h","e"," ","q","u","i","c","k">>

BrownFox == <<"b","r","o","w","n"," ","f","o","x">>

TheQuickBrownFoxMap ==
    (<<"t","h","e"," ","q","u","i","c","k">> :> 1)
    @@ (<<"q","u","i","c","k"," ","b","r","o","w","n">> :> 1)
    @@ (<<"b","r","o","w","n"," ","f","o","x">> :> 1)

\* C2: the tokens of all lines reach the accumulator as one stream: the
\* words fed and still to feed are the tokens of the lines read, in order,
\* and once the file is read the map counts the adjacent pairs of that
\* whole stream, line boundaries and token-less lines ignored.  The file
\* "the quick" / "brown fox" gives {the quick: 1, quick brown: 1, brown fox: 1}.
C2_OneContinuousStream ==
    /\ pc \in {"lines", "words", "print", "done"} =>
           stream \o line_word_vec = FlatTokens(lines_read)
    /\ pc \in {"lines", "print", "done"} =>
           CountsPairsOf(counter_map, FlatTokens(lines_read))
    /\ (pc \in {"print", "done"} /\ lines_read = <<TheQuick, BrownFox>>) =>
           counter_map = TheQuickBrownFoxMap

\* a file whose token-bearing lines are separated by a line without tokens:
\* the pair across them has been counted
C2_Witness ==
    /\ pc = "done"
    /\ lines_read = <<TheQuick, <<".",".",".">>, BrownFox>>
    /\ counter_map = TheQuickBrownFoxMap

ErrorKinds == {"error_parsing", "cannot_read", "line_error"}

ResultKinds == {"hist", "total"}

\* C7: a missing argument, a file that cannot be opened and a line that
\* cannot be read each end the process at once with status 9: the
\* diagnostic is the last thing written, no histogram or total line is
\* written in such a run, no further line is read or fed, and with a
\* missing argument run is not entered.
C7_ErrorsAbort ==
    /\ \A i \in 1..Len(output) :
          output[i].kind \in ErrorKinds =>
              /\ pc = "exited"
              /\ exit_code = ExitIO
              /\ i = Len(output)
              /\ \A j \in 1..Len(output) : output[j].kind \notin ResultKinds
    /\ \A i \in 1..Len(output) :
          output[i].kind = "error_parsing" => ~run_entered /\ i = 1
    /\ \A i \in 1..Len(output) :
          output[i].kind = "line_error" =>
              /\ output[i].n = Len(lines_read)
              /\ stream = FlatTokens(lines_read)
    /\ pc = "exited" =>
          /\ output # <<>>
          /\ output[Len(output)].kind \in ErrorKinds
          /\ ~ENABLED Next

\* a line fails to be read after bigrams have been counted
C7_Witness ==
    /\ pc = "exited"
    /\ output[Len(output)].kind = "line_error"
    /\ output[Len(output)].n = 2
    /\ counter_map # EmptyMap

\* the keys of the histogram lines written, in the order written
HistKeys ==
    LET idx == {i \in 1..Len(output) : output[i].kind = "hist"}
        nth(n) == CHOOSE i \in idx : Cardinality({j \in idx : j < i}) = n - 1
    IN  [n \in 1..Cardinality(idx) |-> output[nth(n)].key]

\* the distinct bigram keys of a token stream, in the order first seen
RECURSIVE FirstSeen(_, _)
FirstSeen(t, seen) ==
    IF Len(t) < 2 THEN seen
    ELSE LET k == PairKey(t[1], t[2])
         IN  FirstSeen(Tail(t),
                       IF \E i \in 1..Len(seen) : seen[i] = k
                       THEN seen ELSE Append(seen, k))

\* C8: run writes each distinct bigram once, in the order in which the
\* bigrams were first seen in the token stream.
C8_PrintedInFirstSeenOrder ==
    pc = "done" => HistKeys = FirstSeen(stream, <<>>)

----------------------------------------------------------------------------
(* Properties of cleanse_word and parse_text_into_vec *)

IsTokenChar(c) == c \in Lower \cup Digit

\* the first maximal run of [a-z0-9] characters of s, which has one
FirstRun(s) ==
    LET i == CHOOSE a \in 1..Len(s) :
                 /\ IsTokenChar(s[a])
                 /\ \A j \in 1..(a - 1) : ~IsTokenChar(s[j])
        j == CHOOSE b \in i..Len(s) :
                 /\ \A k \in i..b : IsTokenChar(s[k])
                 /\ (b = Len(s) \/ ~IsTokenChar(s[b + 1]))
    IN  SubSeq(s, i, j)

\* a lowercased, whitespace-free candidate with a character of [a-z0-9]
IsCandidate(s) ==
    /\ \A i \in 1..Len(s) : s[i] \notin Upper /\ ~is_whitespace(s[i])
    /\ \E i \in 1..Len(s) : IsTokenChar(s[i])

\* C3: for a lowercased, whitespace-free candidate with at least one
\* character of [a-z0-9], cleanse_word returns Some of exactly the first
\* maximal run of [a-z0-9] characters.
C3_ReturnsFirstRun ==
    (tpc = "cleansed" /\ IsCandidate(text)) => cleansed = Some(FirstRun(text))

\* leading noise is stripped and the text after the next noise is dropped
C3_Witness ==
    /\ tpc = "cleansed"
    /\ text = <<".", "a", "U+1F970", "0">>
    /\ cleansed = Some(<<"a">>)

AllOutsideClass(s) == \A i \in 1..Len(s) : ~re_class(s[i])

\* C4 as stated: for all strings made only of characters outside
\* [a-z0-9 ], cleanse_word returns None.
C4_AllNoiseIsNone ==
    (tpc = "cleansed" /\ AllOutsideClass(text)) => cleansed = None

\* C4 as amended: for all non-empty strings made only of characters
\* outside [a-z0-9 ], cleanse_word returns None.
C4_NonEmptyAllNoiseIsNone ==
    (tpc = "cleansed" /\ text # <<>> /\ AllOutsideClass(text)) => cleansed = None

\* punctuation, an uppercase letter, a tab and a non-ASCII character
C4_Witness ==
    /\ tpc = "cleansed"
    /\ text = <<".", "A", "\t", "U+1F970">>
    /\ cleansed = None

\* C5: every element parse_text_into_vec returns is a Token: non-empty
\* and made only of characters of [a-z0-9].
C5_ElementsAreTokens ==
    tpc = "parsed" =>
        \A k \in 1..Len(parsed) :
            /\ parsed[k] # <<>>
            /\ \A i \in 1..Len(parsed[k]) : IsTokenChar(parsed[k][i])

\* a line with an uppercase letter, punctuation and a non-ASCII character
C5_Witness ==
    /\ tpc = "parsed"
    /\ text = <<"U+1F970", "A", ".", "0">>
    /\ parsed = << <<"a">> >>

\* the maximal runs of non-whitespace characters of s, left to right
PiecesOf(s) ==
    LET starts == {i \in 1..Len(s) :
                      ~is_whitespace(s[i]) /\ (i = 1 \/ is_whitespace(s[i - 1]))}
        nth(n) == CHOOSE i \in starts : Cardinality({j \in starts : j < i}) = n - 1
        last(i) == CHOOSE j \in i..Len(s) :
                       /\ \A k \in i..j : ~is_whitespace(s[k])
                       /\ (j = Len(s) \/ is_whitespace(s[j + 1]))
    IN  [n \in 1..Cardinality(starts) |-> SubSeq(s, nth(n), last(nth(n)))]

HasAsciiAlnum(s) == \E i \in 1..Len(s) : s[i] \in Lower \cup Upper \cup Digit

\* C6: parse_text_into_vec returns, in order, the cleansed lowercased
\* token of each whitespace-delimited piece that has an ASCII letter or
\* digit, and nothing for the other pieces.
C6_TokensOfPiecesInOrder ==
    tpc = "parsed" =>
        LET good == SelectSeq(PiecesOf(text), HasAsciiAlnum)
        IN  /\ Len(parsed) = Len(good)
            /\ \A k \in 1..Len(parsed) :
                   parsed[k] = FirstRun(to_ascii_lowercase(good[k]))

\* a noise piece between two kept pieces is dropped without a gap
C6_Witness ==
    /\ tpc = "parsed"
    /\ text = <<"0", " ", ".", "\t", "A">>
    /\ parsed = << <<"0">>, <<"a">> >>

====
